---- MODULE Spec2Model ----
(***************************************************************************)
(* Model of the distance-server: the DistanceCalculator service            *)
(* (services/distance_calculator.py) and the request routes of app.py.     *)
(*                                                                         *)
(* Numbers.  Points are sequences of integers.  A distance is a real       *)
(* number kept exactly, as (num + irr * sqrt(rad)) / den in lowest terms;  *)
(* den = 0 is the not-a-number value a float division 0/0 produces.        *)
(***************************************************************************)
EXTENDS Integers, Sequences, FiniteSets, TLC

VARIABLES supported_types, op, args, result,
          supported_chart_types, supported_formats,
          rc_params, open_figures, threads

(* the state of the request threads and of the plotting library, which     *)
(* the DistanceCalculator calls leave alone                                *)
server_vars == <<supported_chart_types, supported_formats,
                 rc_params, open_figures, threads>>

vars == <<supported_types, op, args, result,
          supported_chart_types, supported_formats,
          rc_params, open_figures, threads>>

(* ------------------------------ bounds --------------------------------- *)
MaxVal == 1
MaxDim == 2
MaxPoints == 3
MaxOpenFigures == 2

Vals == (0 - MaxVal)..MaxVal
Vectors == UNION {[1..n -> Vals] : n \in 0..MaxDim}
BatchVals == {0, 1}
BatchVectors == UNION {[1..n -> BatchVals] : n \in (MaxDim - 1)..MaxDim}
PointLists == UNION {[1..n -> BatchVectors] : n \in 0..MaxPoints}
Metrics == {"euclidean", "manhattan", "cosine", "hamming", "jaccard"}
MetricNames == Metrics \cup {"chebyshev", ""}
RouteVectors == BatchVectors \cup {<<>>}
PointFields ==
    {[kind |-> "missing", value |-> <<>>], [kind |-> "null", value |-> <<>>]}
      \cup {[kind |-> "value", value |-> v] : v \in RouteVectors}
TypeFields ==
    {[kind |-> "missing", value |-> ""], [kind |-> "null", value |-> ""]}
      \cup {[kind |-> "value", value |-> t] : t \in MetricNames}
Bodies ==
    {[is_object |-> FALSE, point_a |-> [kind |-> "missing", value |-> <<>>],
      point_b |-> [kind |-> "missing", value |-> <<>>],
      type |-> [kind |-> "missing", value |-> ""]]}
      \cup [is_object : {TRUE}, point_a : PointFields, point_b : PointFields,
            type : TypeFields]

(* the request threads of the server *)
Threads == {"w1", "w2"}

ChartKinds == {"scatter", "heatmap", "network", "histogram", "line"}
GoodPoints == <<(<<0, 0>>), (<<1, 1>>), (<<1, 0>>)>>
RaggedPoints == <<(<<0, 0>>), (<<1>>)>>
FlatList == <<0, 1, 2>>
SquareMatrix == <<(<<0, 1>>), (<<1, 0>>)>>

(* --------------------------- exact reals ------------------------------- *)
Abs(x) == IF x < 0 THEN 0 - x ELSE x

RECURSIVE GCD(_, _)
GCD(x, y) == IF y = 0 THEN x ELSE GCD(y, x % y)

RECURSIVE SqPart(_, _, _)
(* the largest t >= s with t*t dividing n, or best when there is none *)
SqPart(n, s, best) ==
    IF s * s > n THEN best
    ELSE SqPart(n, s + 1, IF n % (s * s) = 0 THEN s ELSE best)

NaN == [num |-> 0, irr |-> 0, rad |-> 0, den |-> 0]

(* (a + b*sqrt(r)) / d in canonical form; r >= 0; d = 0 gives NaN *)
Mk(a, b, r, d) ==
    IF d = 0 THEN NaN
    ELSE
      LET sg == IF d < 0 THEN 0 - 1 ELSE 1
          s  == IF r = 0 THEN 0 ELSE SqPart(r, 1, 1)
          r1 == IF r = 0 THEN 1 ELSE r \div (s * s)
          b1 == IF r1 = 1 THEN 0 ELSE sg * b * s
          a1 == IF r1 = 1 THEN sg * (a + b * s) ELSE sg * a
          d1 == sg * d
          r2 == IF b1 = 0 THEN 1 ELSE r1
          g  == GCD(GCD(Abs(a1), Abs(b1)), d1)
      IN [num |-> a1 \div g, irr |-> b1 \div g, rad |-> r2, den |-> d1 \div g]

RInt(n) == Mk(n, 0, 1, 1)
RSqrt(n) == Mk(0, 1, n, 1)
(* 1 - p / q *)
ROneMinusQuot(p, q) == Mk(q - p, 0, 1, q)
(* 1 - p / sqrt(m) *)
ROneMinusOverSqrt(p, m) == Mk(m, 0 - p, m, m)

Zero == RInt(0)
One == RInt(1)

IsNaN(x) == x.den = 0

RNonNeg(x) ==
    /\ x.den > 0
    /\ \/ x.num >= 0 /\ x.irr >= 0
       \/ x.num >= 0 /\ x.irr < 0 /\ x.num * x.num >= x.irr * x.irr * x.rad
       \/ x.num < 0 /\ x.irr > 0 /\ x.irr * x.irr * x.rad >= x.num * x.num

(* --------------------------- vector sums ------------------------------- *)
Min(x, y) == IF x < y THEN x ELSE y
Max(x, y) == IF x > y THEN x ELSE y

RECURSIVE SumTo(_, _)
(* f[1] + ... + f[n] *)
SumTo(f, n) == IF n = 0 THEN 0 ELSE SumTo(f, n - 1) + f[n]

Sum(f) == SumTo(f, Len(f))

(* --------------------------- the metrics ------------------------------- *)
_euclidean_distance(point_a, point_b) ==
    RSqrt(Sum([k \in 1..Len(point_a) |->
                 (point_a[k] - point_b[k]) * (point_a[k] - point_b[k])]))

(* mutant: the absolute value is dropped *)
_manhattan_distance_signed(point_a, point_b) ==
    RInt(Sum([k \in 1..Len(point_a) |-> point_a[k] - point_b[k]]))

_manhattan_distance(point_a, point_b) ==
    RInt(Sum([k \in 1..Len(point_a) |-> Abs(point_a[k] - point_b[k])]))

(* mutant: only the first norm is tested against zero *)
_cosine_distance_first_norm(point_a, point_b) ==
    LET dot_product == Sum([k \in 1..Len(point_a) |-> point_a[k] * point_b[k]])
        norm_a_sq == Sum([k \in 1..Len(point_a) |-> point_a[k] * point_a[k]])
        norm_b_sq == Sum([k \in 1..Len(point_b) |-> point_b[k] * point_b[k]])
    IN IF norm_a_sq = 0
       THEN One
       ELSE ROneMinusOverSqrt(dot_product, norm_a_sq * norm_b_sq)

_cosine_distance(point_a, point_b) ==
    LET dot_product == Sum([k \in 1..Len(point_a) |-> point_a[k] * point_b[k]])
        norm_a_sq == Sum([k \in 1..Len(point_a) |-> point_a[k] * point_a[k]])
        norm_b_sq == Sum([k \in 1..Len(point_b) |-> point_b[k] * point_b[k]])
    IN IF norm_a_sq = 0 \/ norm_b_sq = 0
       THEN One
       ELSE ROneMinusOverSqrt(dot_product, norm_a_sq * norm_b_sq)

(* mutant: the count is divided by the length *)
_hamming_distance_normalised(point_a, point_b) ==
    Mk(Sum([k \in 1..Len(point_a) |-> IF point_a[k] # point_b[k] THEN 1 ELSE 0]),
       0, 1, Len(point_a))

_hamming_distance(point_a, point_b) ==
    RInt(Sum([k \in 1..Len(point_a) |->
                 IF point_a[k] # point_b[k] THEN 1 ELSE 0]))

(* mutant: the union == 0 test is dropped *)
_jaccard_distance_unguarded(point_a, point_b) ==
    LET intersection == Sum([k \in 1..Len(point_a) |-> Min(point_a[k], point_b[k])])
        union == Sum([k \in 1..Len(point_a) |-> Max(point_a[k], point_b[k])])
    IN ROneMinusQuot(intersection, union)

_jaccard_distance(point_a, point_b) ==
    LET intersection == Sum([k \in 1..Len(point_a) |-> Min(point_a[k], point_b[k])])
        union == Sum([k \in 1..Len(point_a) |-> Max(point_a[k], point_b[k])])
    IN IF union = 0 THEN Zero ELSE ROneMinusQuot(intersection, union)

(* --------------------------- calculate --------------------------------- *)
Raise(e) == [ok |-> FALSE, error |-> e]
Return(v) == [ok |-> TRUE, value |-> v]

InList(x, list) == \E k \in DOMAIN list : list[k] = x

(* mutant: the membership test is dropped *)
IsSupported_any(calculation_type) == TRUE

(* line 31: calculation_type in self.supported_types *)
IsSupported(calculation_type) == InList(calculation_type, supported_types)

(* mutant: only a longer first point is rejected *)
SameDimensionality_prefix(point_a, point_b) == Len(point_a) <= Len(point_b)

(* line 34: len(point_a) == len(point_b) *)
SameDimensionality(point_a, point_b) == Len(point_a) = Len(point_b)

(* lines 42-51: the if/elif chain; it has no else branch, so a name outside *)
(* the five leaves `distance` unbound                                       *)
Dispatch(point_a, point_b, calculation_type) ==
    CASE calculation_type = "euclidean" ->
           [bound |-> TRUE, distance |-> _euclidean_distance(point_a, point_b)]
      [] calculation_type = "manhattan" ->
           [bound |-> TRUE, distance |-> _manhattan_distance(point_a, point_b)]
      [] calculation_type = "cosine" ->
           [bound |-> TRUE, distance |-> _cosine_distance(point_a, point_b)]
      [] calculation_type = "hamming" ->
           [bound |-> TRUE, distance |-> _hamming_distance(point_a, point_b)]
      [] calculation_type = "jaccard" ->
           [bound |-> TRUE, distance |-> _jaccard_distance(point_a, point_b)]
      [] OTHER -> [bound |-> FALSE, distance |-> NaN]

(* lines 18-63.  The returned metadata (timestamp, calculation_id) is a    *)
(* clock reading and a random uuid that no other line reads; it is left    *)
(* out of the returned record.                                             *)
calculate(point_a, point_b, calculation_type) ==
    IF ~IsSupported(calculation_type) THEN Raise("InvalidMetric")
    ELSE IF ~SameDimensionality(point_a, point_b) THEN Raise("DimensionMismatch")
    ELSE
      LET d == Dispatch(point_a, point_b, calculation_type)
      IN IF ~d.bound THEN Raise("UnboundLocalError")
         ELSE Return([distance |-> d.distance,
                      calculation_type |-> calculation_type,
                      point_a |-> point_a,
                      point_b |-> point_b,
                      dimensionality |-> Len(point_a)])

(* ------------------------- batch_calculate ----------------------------- *)
(* mutant: the guard is len(points) < 1 *)
EnoughPoints_one(points) == Len(points) >= 1

(* line 120: the guard is len(points) < 2 *)
EnoughPoints(points) == Len(points) >= 2

(* mutant: the diagonal goes through calculate like every other entry *)
IsDiagonal_never(i, j) == FALSE

(* line 129: if i == j *)
IsDiagonal(i, j) == i = j

(* mutant: both orders of a pair are stored *)
StoresPair_both(i, j) == i # j

(* line 134: if i < j *)
StoresPair(i, j) == i < j

RECURSIVE BatchLoop(_, _, _, _, _, _, _)
(* lines 126-139: the two nested loops, i and j counted from 0 as in the  *)
(* code; an error raised by calculate leaves the loops at once            *)
BatchLoop(points, calculation_type, i, j, row, distance_matrix, calculation_pairs) ==
    IF i >= Len(points)
    THEN Return([distance_matrix |-> distance_matrix,
                 calculation_type |-> calculation_type,
                 points |-> points,
                 calculation_pairs |-> calculation_pairs,
                 point_count |-> Len(points)])
    ELSE IF j >= Len(points)
    THEN BatchLoop(points, calculation_type, i + 1, 0, <<>>,
                   Append(distance_matrix, row), calculation_pairs)
    ELSE IF IsDiagonal(i, j)
    THEN BatchLoop(points, calculation_type, i, j + 1, Append(row, Zero),
                   distance_matrix, calculation_pairs)
    ELSE
      LET r == calculate(points[i + 1], points[j + 1], calculation_type)
      IN IF ~r.ok THEN r
         ELSE BatchLoop(points, calculation_type, i, j + 1,
                        Append(row, r.value.distance), distance_matrix,
                        IF StoresPair(i, j)
                        THEN Append(calculation_pairs,
                                    [point_indices |-> <<i, j>>,
                                     distance |-> r.value.distance])
                        ELSE calculation_pairs)

batch_calculate(points, calculation_type) ==
    IF ~EnoughPoints(points) THEN Raise("InsufficientPoints")
    ELSE BatchLoop(points, calculation_type, 0, 0, <<>>, <<>>, <<>>)

(* ----------------- POST /api/calculate-distance ------------------------ *)
(* A field of the JSON body: kind is "missing" (no such key), "null" or    *)
(* "value".  dict.get answers None for a missing key and for a null value. *)
Get(field, default) ==
    IF field.kind = "missing" THEN default
    ELSE IF field.kind = "null" THEN [isNone |-> TRUE, value |-> field.value]
    ELSE [isNone |-> FALSE, value |-> field.value]

None(v) == [isNone |-> TRUE, value |-> v]

(* mutant: only None is tested, as in `point_a is None` *)
Falsy_none_only(x) == x.isNone

(* line 33: Python truthiness of a point: None and the empty list are false *)
Falsy(x) == x.isNone \/ Len(x.value) = 0

(* mutant: the exception's text is sent to the caller *)
GenericMessage_leak(route, e) == e

(* app.py lines 41, 60, 75: the fixed message of each route's except clause *)
GenericMessage(route, e) ==
    CASE route = "calculate_distance" -> "Calculation failed"
      [] route = "generate_visualization" -> "Visualization generation failed"
      [] route = "export_results" -> "Export failed"

calculate_distance(data) ==
    IF ~data.is_object
    THEN [status |-> 500,
          error |-> GenericMessage("calculate_distance", "AttributeError"),
          engine_called |-> FALSE,
          result |-> Raise("AttributeError")]
    ELSE
      LET point_a == Get(data.point_a, None(<<>>))
          point_b == Get(data.point_b, None(<<>>))
          calculation_type == Get(data.type, [isNone |-> FALSE, value |-> "euclidean"])
      IN IF Falsy(point_a) \/ Falsy(point_b)
         THEN [status |-> 400, error |-> "Both points are required",
               engine_called |-> FALSE, result |-> Raise("none")]
         ELSE
           LET r == IF calculation_type.isNone
                    THEN Raise("InvalidMetric")
                    ELSE calculate(point_a.value, point_b.value, calculation_type.value)
           IN IF r.ok
              THEN [status |-> 200, error |-> "", engine_called |-> TRUE, result |-> r]
              ELSE [status |-> 500,
                    error |-> GenericMessage("calculate_distance", r.error),
                    engine_called |-> TRUE, result |-> r]

(* -------------------- VisualizationGenerator --------------------------- *)
(* The distances of a chart request: a flat list of numbers or a list of   *)
(* rows.  The empty list is the flat list <<>>.                            *)
FlatDistances(f) == [shape |-> "flat", flat |-> f, rows |-> <<>>]
MatrixDistances(m) == [shape |-> "matrix", flat |-> <<>>, rows |-> m]
NoDistances == FlatDistances(<<>>)
DLen(d) == IF d.shape = "flat" THEN Len(d.flat) ELSE Len(d.rows)

Some(v) == [isNone |-> FALSE, value |-> v]

(* the value stored under a key that the caller always sets *)
FieldOf(x) == [kind |-> IF x.isNone THEN "null" ELSE "value", value |-> x.value]

(* `not points`: None and the empty list are false *)
PointsGiven(points) == ~points.isNone /\ Len(points.value) > 0
(* `not distances`, `not distance_matrix` *)
DistancesGiven(distances) == ~distances.isNone /\ DLen(distances.value) > 0

(* line 151: the default connection_threshold 0.5, as a fraction *)
ThresholdNum == 1
ThresholdDen == 2

(* What a chart helper did: whether plt.subplots created a figure, whether *)
(* _figure_to_base64 closed it, and the image or the error.                *)
NoImage ==
    [chart |-> "none", rc |-> "none", points |-> <<>>, coloured |-> FALSE,
     edges |-> {}, values |-> <<>>, matrix |-> <<>>]
Drawn(image) ==
    [ok |-> TRUE, error |-> "", created |-> TRUE, closed |-> TRUE, image |-> image]
(* raised before plt.subplots *)
Refused(e) ==
    [ok |-> FALSE, error |-> e, created |-> FALSE, closed |-> FALSE, image |-> NoImage]
(* raised between plt.subplots and _figure_to_base64: nothing closes the figure *)
Aborted(e) ==
    [ok |-> FALSE, error |-> e, created |-> TRUE, closed |-> FALSE, image |-> NoImage]

(* lines 100-102, 159-161: point[0] and point[1] of every point are read   *)
(* when the first point has two coordinates; a shorter point raises        *)
(* IndexError                                                              *)
CoordinatesRaise(points) ==
    /\ Len(points[1]) >= 2
    /\ \E k \in 1..Len(points) : Len(points[k]) < 2

Plotted(points) == IF Len(points[1]) >= 2 THEN points ELSE <<>>

(* lines 89-126; rc is the rcParams in force while the figure is built *)
_generate_scatter_plot(config, rc) ==
    LET points == Get(config.points, Some(<<>>))
        distances == Get(config.distances, Some(NoDistances))
    IN IF ~PointsGiven(points) THEN Refused("MissingData")
       ELSE IF CoordinatesRaise(points.value) THEN Aborted("IndexError")
       ELSE Drawn([NoImage EXCEPT
                     !.chart = "scatter", !.rc = rc,
                     !.points = Plotted(points.value),
                     !.coloured = /\ Len(points.value[1]) >= 2
                                  /\ DistancesGiven(distances)
                                  /\ DLen(distances.value) = Len(points.value)])

(* lines 128-145: the matrix is read under the key distance_matrix *)
_generate_heatmap(config, rc) ==
    LET distance_matrix == Get(config.distance_matrix, Some(NoDistances))
    IN IF ~DistancesGiven(distance_matrix) THEN Refused("MissingData")
       ELSE Drawn([NoImage EXCEPT
                     !.chart = "heatmap", !.rc = rc,
                     !.matrix = distance_matrix.value.rows])

(* lines 168-175: an edge for i < j when distances[i][j] <= threshold;     *)
(* len(distances[i]) raises TypeError when distances is a flat list        *)
NetworkRaises(points, distances) ==
    /\ distances.shape = "flat"
    /\ \E i \in 0..(Len(points) - 1) :
         /\ i + 1 <= Len(points) - 1
         /\ i < DLen(distances)

NetworkEdges(points, distances) ==
    {e \in (0..(Len(points) - 1)) \X (0..(Len(points) - 1)) :
       /\ e[1] < e[2]
       /\ e[1] < Len(distances.rows)
       /\ e[2] < Len(distances.rows[e[1] + 1])
       /\ distances.rows[e[1] + 1][e[2] + 1] * ThresholdDen <= ThresholdNum}

(* lines 147-187 *)
_generate_network_plot(config, rc) ==
    LET points == Get(config.points, Some(<<>>))
        distances == Get(config.distances, Some(NoDistances))
    IN IF ~PointsGiven(points) THEN Refused("MissingData")
       ELSE IF CoordinatesRaise(points.value) THEN Aborted("IndexError")
       ELSE IF /\ Len(points.value[1]) >= 2
               /\ DistancesGiven(distances)
               /\ NetworkRaises(points.value, distances.value)
       THEN Aborted("TypeError")
       ELSE Drawn([NoImage EXCEPT
                     !.chart = "network", !.rc = rc,
                     !.points = Plotted(points.value),
                     !.edges = IF Len(points.value[1]) >= 2 /\ DistancesGiven(distances)
                               THEN NetworkEdges(points.value, distances.value)
                               ELSE {}])

Positive(d) == d > 0

RECURSIVE FlattenPositive(_, _)
(* lines 199-200: the positive entries of rows[k..], row after row *)
FlattenPositive(rows, k) ==
    IF k > Len(rows) THEN <<>>
    ELSE SelectSeq(rows[k], Positive) \o FlattenPositive(rows, k + 1)

(* lines 189-223 *)
_generate_histogram(config, rc) ==
    LET distances == Get(config.distances, Some(NoDistances))
    IN IF ~DistancesGiven(distances) THEN Refused("MissingData")
       ELSE Drawn([NoImage EXCEPT
                     !.chart = "histogram", !.rc = rc,
                     !.values = IF distances.value.shape = "matrix"
                                THEN FlattenPositive(distances.value.rows, 1)
                                ELSE SelectSeq(distances.value.flat, Positive)])

(* lines 225-249 *)
_generate_line_plot(config, rc) ==
    LET distances == Get(config.distances, Some(NoDistances))
    IN IF ~DistancesGiven(distances) THEN Refused("MissingData")
       ELSE Drawn([NoImage EXCEPT
                     !.chart = "line", !.rc = rc,
                     !.values = distances.value.flat,
                     !.matrix = distances.value.rows])

(* line 54: chart_type in self.supported_chart_types *)
IsSupportedChart(chart_type) == InList(chart_type, supported_chart_types)

(* lines 68-77: the chart helper of the kind *)
ChartHelper(config, chart_type, rc) ==
    CASE chart_type = "scatter" -> _generate_scatter_plot(config, rc)
      [] chart_type = "heatmap" -> _generate_heatmap(config, rc)
      [] chart_type = "network" -> _generate_network_plot(config, rc)
      [] chart_type = "histogram" -> _generate_histogram(config, rc)
      [] chart_type = "line" -> _generate_line_plot(config, rc)
      [] OTHER -> Refused("UnboundLocalError")

(* app.py lines 48-53: the config the route hands to generate *)
VisualizationConfig(data) ==
    [points |-> FieldOf(Get(data.points, Some(<<>>))),
     distances |-> FieldOf(Get(data.distances, Some(NoDistances))),
     chart_type |-> FieldOf(Get(data.chart_type, Some("scatter"))),
     style |-> FieldOf(Get(data.style, Some("default"))),
     distance_matrix |-> [kind |-> "missing", value |-> NoDistances]]

(* lines 51-52: config.get with its defaults *)
ChartTypeOf(config) == Get(config.chart_type, Some("scatter"))
StyleOf(config) == Get(config.style, Some("default"))

(* the bodies of POST /api/generate-visualization *)
VizPointsFields ==
    {[kind |-> "missing", value |-> <<>>],
     [kind |-> "value", value |-> GoodPoints],
     [kind |-> "value", value |-> RaggedPoints]}
VizDistancesFields ==
    {[kind |-> "missing", value |-> NoDistances],
     [kind |-> "value", value |-> FlatDistances(FlatList)],
     [kind |-> "value", value |-> MatrixDistances(SquareMatrix)]}
VizChartFields ==
    {[kind |-> "missing", value |-> ""]}
      \cup {[kind |-> "value", value |-> k] : k \in ChartKinds \cup {"pie"}}
VizStyleFields == {[kind |-> "missing", value |-> ""]}
VizBodies ==
    {[is_object |-> FALSE, points |-> [kind |-> "missing", value |-> <<>>],
      distances |-> [kind |-> "missing", value |-> NoDistances],
      chart_type |-> [kind |-> "missing", value |-> ""],
      style |-> [kind |-> "missing", value |-> ""]]}
      \cup [is_object : {TRUE}, points : VizPointsFields,
            distances : VizDistancesFields, chart_type : VizChartFields,
            style : VizStyleFields]

(* lines 79-87 of generate; the metadata (timestamp, uuid) is left out *)
GenerateResult(config, image) ==
    [chart_type |-> ChartTypeOf(config).value,
     style |-> StyleOf(config).value,
     chart_data |-> [image_base64 |-> image, format |-> "png", encoding |-> "base64"]]

(* app.py lines 55-60: the route's answer to what generate did *)
VisualizationResponse(r) ==
    IF r.ok
    THEN [status |-> 200, error |-> "", engine_called |-> TRUE, result |-> r]
    ELSE [status |-> 500,
          error |-> GenericMessage("generate_visualization", r.error),
          engine_called |-> TRUE, result |-> r]

(* app.py line 47-53 on a body that is no JSON object: data.get raises *)
NoObjectResponse(route) ==
    [status |-> 500, error |-> GenericMessage(route, "AttributeError"),
     engine_called |-> FALSE, result |-> Raise("AttributeError")]

(* VisualizationGenerator.generate run from its first line to its last     *)
(* with no other thread in between: the helper draws under the palette     *)
(* that lines 58-65 have just set                                          *)
generate(config) ==
    IF ~IsSupportedChart(ChartTypeOf(config).value)
    THEN Raise("UnsupportedChartKind")
    ELSE LET out == ChartHelper(config, ChartTypeOf(config).value, "palette")
         IN IF out.ok THEN Return(GenerateResult(config, out.image))
            ELSE Raise(out.error)

(* POST /api/generate-visualization handled with no other thread in between *)
generate_visualization(data) ==
    IF ~data.is_object THEN NoObjectResponse("generate_visualization")
    ELSE VisualizationResponse(generate(VisualizationConfig(data)))

(* ------------------------- ResultsExporter ----------------------------- *)
(* the readings of the clock, seconds after 2026-01-01T00:00:00 *)
Clock == {1, 2}

(* line 294: datetime.now().isoformat() *)
isoformat(now) == "2026-01-01T00:00:0" \o ToString(now)

(* line 289: datetime.now().strftime("%Y%m%d_%H%M%S") *)
strftime(now) == "20260101_00000" \o ToString(now)


(* Python values: t is the type; n the integer, s the text of a str (or    *)
(* what str() gives for an object json cannot serialize, a datetime say),  *)
(* items the members of a list, tuple or dict, keys the keys of a dict in  *)
(* insertion order.                                                        *)
PInt(n) == [t |-> "int", n |-> n, s |-> "", keys |-> <<>>, items |-> <<>>]
PStr(x) == [t |-> "str", n |-> 0, s |-> x, keys |-> <<>>, items |-> <<>>]
PNone == [t |-> "none", n |-> 0, s |-> "", keys |-> <<>>, items |-> <<>>]
PObj(x) == [t |-> "obj", n |-> 0, s |-> x, keys |-> <<>>, items |-> <<>>]
PList(xs) == [t |-> "list", n |-> 0, s |-> "", keys |-> <<>>, items |-> xs]
PTuple(xs) == [t |-> "tuple", n |-> 0, s |-> "", keys |-> <<>>, items |-> xs]
PDict(ks, xs) == [t |-> "dict", n |-> 0, s |-> "", keys |-> ks, items |-> xs]

HasKey(d, k) == d.t = "dict" /\ \E i \in 1..Len(d.keys) : d.keys[i] = k
Item(d, k) == d.items[CHOOSE i \in 1..Len(d.keys) : d.keys[i] = k]

RECURSIVE PyRepr(_)
RECURSIVE ReprItems(_, _)
RECURSIVE ReprPairs(_, _, _)
(* repr(items[k..]) joined by ", " *)
ReprItems(items, k) ==
    IF k > Len(items) THEN ""
    ELSE PyRepr(items[k]) \o (IF k < Len(items) THEN ", " ELSE "")
           \o ReprItems(items, k + 1)

ReprPairs(keys, items, k) ==
    IF k > Len(items) THEN ""
    ELSE "'" \o keys[k] \o "': " \o PyRepr(items[k])
           \o (IF k < Len(items) THEN ", " ELSE "") \o ReprPairs(keys, items, k + 1)

(* repr(): what str() shows of a value inside a list, tuple or dict *)
PyRepr(v) ==
    CASE v.t = "int" -> ToString(v.n)
      [] v.t = "str" -> "'" \o v.s \o "'"
      [] v.t = "none" -> "None"
      [] v.t = "obj" -> "repr(" \o v.s \o ")"
      [] v.t = "list" -> "[" \o ReprItems(v.items, 1) \o "]"
      [] v.t = "tuple" ->
           "(" \o ReprItems(v.items, 1) \o (IF Len(v.items) = 1 THEN "," ELSE "") \o ")"
      [] v.t = "dict" -> "{" \o ReprPairs(v.keys, v.items, 1) \o "}"

(* str() *)
PyStr(v) == IF v.t \in {"str", "obj"} THEN v.s ELSE PyRepr(v)

(* ---- json.dumps(..., default=str) as a sequence of tokens, json.loads -- *)
Punct(c) == [t |-> "punct", n |-> 0, s |-> c]
NumTok(n) == [t |-> "num", n |-> n, s |-> ""]
StrTok(x) == [t |-> "string", n |-> 0, s |-> x]
NullTok == [t |-> "null", n |-> 0, s |-> ""]

RECURSIVE Dumps(_)
RECURSIVE DumpItems(_, _)
RECURSIVE DumpPairs(_, _, _)
DumpItems(items, k) ==
    IF k > Len(items) THEN <<>>
    ELSE Dumps(items[k]) \o (IF k < Len(items) THEN <<Punct(",")>> ELSE <<>>)
           \o DumpItems(items, k + 1)

DumpPairs(keys, items, k) ==
    IF k > Len(items) THEN <<>>
    ELSE <<StrTok(keys[k]), Punct(":")>> \o Dumps(items[k])
           \o (IF k < Len(items) THEN <<Punct(",")>> ELSE <<>>)
           \o DumpPairs(keys, items, k + 1)

(* line 72: a list and a tuple are both written as an array; a value of no *)
(* JSON type goes through default=str and is written as a string           *)
Dumps(v) ==
    CASE v.t = "int" -> <<NumTok(v.n)>>
      [] v.t = "str" -> <<StrTok(v.s)>>
      [] v.t = "none" -> <<NullTok>>
      [] v.t = "obj" -> <<StrTok(PyStr(v))>>
      [] v.t \in {"list", "tuple"} ->
           <<Punct("[")>> \o DumpItems(v.items, 1) \o <<Punct("]")>>
      [] v.t = "dict" ->
           <<Punct("{")>> \o DumpPairs(v.keys, v.items, 1) \o <<Punct("}")>>

RECURSIVE ParseValue(_, _)
RECURSIVE ParseArray(_, _, _)
RECURSIVE ParseObject(_, _, _, _)
(* the members of an array from token i on, up to its "]" *)
ParseArray(toks, i, acc) ==
    IF toks[i] = Punct("]") THEN [val |-> PList(acc), next |-> i + 1]
    ELSE IF toks[i] = Punct(",") THEN ParseArray(toks, i + 1, acc)
    ELSE LET m == ParseValue(toks, i)
         IN ParseArray(toks, m.next, Append(acc, m.val))

(* the members of an object from token i on, up to its "}" *)
ParseObject(toks, i, ks, acc) ==
    IF toks[i] = Punct("}") THEN [val |-> PDict(ks, acc), next |-> i + 1]
    ELSE IF toks[i] = Punct(",") THEN ParseObject(toks, i + 1, ks, acc)
    ELSE LET m == ParseValue(toks, i + 2)
         IN ParseObject(toks, m.next, Append(ks, toks[i].s), Append(acc, m.val))

(* json.loads: the value that starts at token i and the token after it *)
ParseValue(toks, i) ==
    CASE toks[i].t = "num" -> [val |-> PInt(toks[i].n), next |-> i + 1]
      [] toks[i].t = "string" -> [val |-> PStr(toks[i].s), next |-> i + 1]
      [] toks[i].t = "null" -> [val |-> PNone, next |-> i + 1]
      [] toks[i] = Punct("[") -> ParseArray(toks, i + 1, <<>>)
      [] toks[i] = Punct("{") -> ParseObject(toks, i + 1, <<>>, <<>>)

Loads(toks) == ParseValue(toks, 1).val

(* mutant: the results are written as their str() text *)
_export_json_str(results_data, now) ==
    Dumps(PDict(<<"export_info", "results">>,
                <<PDict(<<"format", "timestamp", "version">>,
                        <<PStr("json"), PStr(isoformat(now)), PStr("1.0")>>),
                  PStr(PyStr(results_data))>>))

(* lines 62-72 *)
_export_json(results_data, now) ==
    Dumps(PDict(<<"export_info", "results">>,
                <<PDict(<<"format", "timestamp", "version">>,
                        <<PStr("json"), PStr(isoformat(now)), PStr("1.0")>>),
                  results_data>>))

(* ---- csv ---------------------------------------------------------------- *)
RECURSIVE HasComma(_)
(* whether str(v) holds a comma, which makes csv.writer quote the field;   *)
(* the texts of the str values used here hold none                         *)
HasComma(v) ==
    \/ v.t \in {"list", "dict"} /\ Len(v.items) >= 2
    \/ v.t = "tuple" /\ Len(v.items) >= 1
    \/ v.t \in {"list", "dict", "tuple"} /\ \E k \in 1..Len(v.items) : HasComma(v.items[k])

CsvField(text, special) == IF special THEN "\"" \o text \o "\"" ELSE text

(* csv.writer writes None as the empty field and any other value as str() *)
CsvValue(v) == IF v.t = "none" THEN "" ELSE CsvField(PyStr(v), HasComma(v))

RECURSIVE JoinWith(_, _, _)
(* cells[k..] joined by sep *)
JoinWith(cells, sep, k) ==
    IF k > Len(cells) THEN ""
    ELSE cells[k] \o (IF k < Len(cells) THEN sep ELSE "") \o JoinWith(cells, sep, k + 1)

(* writer.writerow: one line of the output, which ends with "\r\n" *)
CsvRow(cells) == JoinWith(cells, ",", 1)

(* f'P{i}' *)
PointLabel(i) == "P" \o ToString(i)

(* len(x), for x in range(..), x[0]: a TypeError on a value that is no     *)
(* sequence                                                                *)
IsSequence(v) == v.t \in {"list", "tuple"}

(* lines 79-90: the header of point labels and one row per matrix row;     *)
(* [f'P{i}'] + row raises TypeError unless row is a list                   *)
CsvMatrix(matrix) ==
    IF ~IsSequence(matrix) THEN Raise("TypeError")
    ELSE IF \E i \in 1..Len(matrix.items) : matrix.items[i].t # "list"
    THEN Raise("TypeError")
    ELSE Return(
           <<CsvRow(<<"Point">> \o [i \in 1..Len(matrix.items) |-> PointLabel(i - 1)])>>
             \o [i \in 1..Len(matrix.items) |->
                   CsvRow(<<PointLabel(i - 1)>>
                            \o [j \in 1..Len(matrix.items[i].items) |->
                                  CsvValue(matrix.items[i].items[j])])])

(* a pair that lines 102-103 can read *)
IsPair(pair) ==
    /\ HasKey(pair, "point_indices")
    /\ HasKey(pair, "distance")
    /\ IsSequence(Item(pair, "point_indices"))
    /\ Len(Item(pair, "point_indices").items) >= 2

(* lines 92-103 *)
CsvPairs(pairs) ==
    IF ~IsSequence(pairs) THEN Raise("TypeError")
    ELSE IF \E k \in 1..Len(pairs.items) : ~IsPair(pairs.items[k])
    THEN Raise("KeyError")
    ELSE Return(
           <<CsvRow(<<"Point_A_Index", "Point_B_Index", "Distance">>)>>
             \o [k \in 1..Len(pairs.items) |->
                   CsvRow(<<CsvValue(Item(pairs.items[k], "point_indices").items[1]),
                            CsvValue(Item(pairs.items[k], "point_indices").items[2]),
                            CsvValue(Item(pairs.items[k], "distance"))>>)])

(* lines 105-110 *)
CsvGeneric(results_data) ==
    IF results_data.t # "dict" THEN Raise("AttributeError")
    ELSE Return(
           <<CsvRow(<<"Key", "Value">>)>>
             \o [k \in 1..Len(results_data.keys) |->
                   CsvRow(<<results_data.keys[k],
                            CsvField(PyStr(results_data.items[k]),
                                     HasComma(results_data.items[k]))>>)])

(* mutant: the calculation pairs are looked for first *)
_export_csv_pairs_first(results_data) ==
    IF HasKey(results_data, "calculation_pairs")
    THEN CsvPairs(Item(results_data, "calculation_pairs"))
    ELSE IF HasKey(results_data, "distance_matrix")
    THEN CsvMatrix(Item(results_data, "distance_matrix"))
    ELSE CsvGeneric(results_data)

(* lines 74-112: the lines of the text *)
_export_csv(results_data) ==
    IF HasKey(results_data, "distance_matrix")
    THEN CsvMatrix(Item(results_data, "distance_matrix"))
    ELSE IF HasKey(results_data, "calculation_pairs")
    THEN CsvPairs(Item(results_data, "calculation_pairs"))
    ELSE CsvGeneric(results_data)

(* ---- xml ---------------------------------------------------------------- *)
(* ElementTree writes an element without text and children as <tag /> *)
Element(tag, content) ==
    IF content = "" THEN "<" \o tag \o " />"
    ELSE "<" \o tag \o ">" \o content \o "</" \o tag \o ">"

RECURSIVE _dict_to_xml(_)
RECURSIVE XmlChildren(_, _, _)
(* the elements of members k.. of a dict (tags are its keys) or of a list  *)
(* (tags are item_0, item_1, ..)                                           *)
XmlChildren(v, tags, k) ==
    IF k > Len(v.items) THEN ""
    ELSE Element(tags[k], _dict_to_xml(v.items[k])) \o XmlChildren(v, tags, k + 1)

(* lines 274-285: the content put into the parent element *)
_dict_to_xml(data) ==
    IF data.t = "dict" THEN XmlChildren(data, data.keys, 1)
    ELSE IF data.t = "list"
    THEN XmlChildren(data, [i \in 1..Len(data.items) |-> "item_" \o ToString(i - 1)], 1)
    ELSE PyStr(data)

(* lines 114-128 *)
_export_xml(results_data, now) ==
    Return(Element("distance_analysis_results",
                   Element("metadata",
                           Element("export_timestamp", isoformat(now))
                             \o Element("format", "xml")
                             \o Element("version", "1.0"))
                     \o Element("results", _dict_to_xml(results_data))))

(* ---- excel -------------------------------------------------------------- *)
(* a matrix pandas can label with one P<i> per row and per column *)
IsSquare(matrix) ==
    /\ IsSequence(matrix)
    /\ \A i \in 1..Len(matrix.items) :
         IsSequence(matrix.items[i]) /\ Len(matrix.items[i].items) = Len(matrix.items)

(* lines 130-173: the sheets of the workbook, which is returned base64     *)
(* encoded; the bytes of the xlsx file are not modelled                    *)
_export_excel(results_data) ==
    IF /\ HasKey(results_data, "distance_matrix")
       /\ ~IsSequence(Item(results_data, "distance_matrix"))
    THEN Raise("TypeError")
    ELSE IF /\ HasKey(results_data, "distance_matrix")
            /\ ~IsSquare(Item(results_data, "distance_matrix"))
    THEN Raise("ValueError")
    ELSE IF /\ HasKey(results_data, "calculation_pairs")
            /\ ~IsSequence(Item(results_data, "calculation_pairs"))
    THEN Raise("TypeError")
    ELSE IF /\ HasKey(results_data, "calculation_pairs")
            /\ \E k \in 1..Len(Item(results_data, "calculation_pairs").items) :
                 ~IsPair(Item(results_data, "calculation_pairs").items[k])
    THEN Raise("KeyError")
    ELSE Return(<<"Summary">>
                  \o (IF HasKey(results_data, "distance_matrix")
                      THEN <<"Distance_Matrix">> ELSE <<>>)
                  \o (IF HasKey(results_data, "calculation_pairs")
                      THEN <<"Calculation_Pairs">> ELSE <<>>))

(* ---- txt and html ------------------------------------------------------- *)
RECURSIVE Spaces(_)
Spaces(n) == IF n <= 0 THEN "" ELSE " " \o Spaces(n - 1)

RECURSIVE Zeros(_)
Zeros(n) == IF n <= 0 THEN "" ELSE "0" \o Zeros(n - 1)

(* the number of characters of str(n), n >= 0 *)
NumDigits(n) == IF n < 10 THEN 1 ELSE IF n < 100 THEN 2 ELSE 3

(* format(n, '.<d>f') of an integer n >= 0 *)
Fixed(n, d) == ToString(n) \o "." \o Zeros(d)

(* format(n, '><w>.<d>f') *)
FixedRight(n, w, d) == Spaces(w - (NumDigits(n) + 1 + d)) \o Fixed(n, d)

(* the 'f' presentation type is defined for numbers only *)
IsNumber(v) == v.t = "int"

(* a matrix whose rows can be walked and whose cells can be formatted      *)
(* with 'f'                                                                *)
IsNumberMatrix(matrix) ==
    /\ IsSequence(matrix)
    /\ \A i \in 1..Len(matrix.items) :
         /\ IsSequence(matrix.items[i])
         /\ \A j \in 1..Len(matrix.items[i].items) : IsNumber(matrix.items[i].items[j])

(* pairs whose fields can be read and whose distance can be formatted *)
IsNumberPairs(pairs) ==
    /\ IsSequence(pairs)
    /\ \A k \in 1..Len(pairs.items) :
         IsPair(pairs.items[k]) /\ IsNumber(Item(pairs.items[k], "distance"))

(* what lines 187-196, 202-204, 211 (239-250, 261-266 in html) raise *)
SectionsRaise(results_data) ==
    \/ HasKey(results_data, "distance_matrix")
         /\ ~IsNumberMatrix(Item(results_data, "distance_matrix"))
    \/ HasKey(results_data, "calculation_pairs")
         /\ ~IsNumberPairs(Item(results_data, "calculation_pairs"))

(* lines 184-196 *)
TxtMatrix(matrix) ==
    <<"DISTANCE MATRIX:", "------------------------------",
      "     " \o JoinWith([i \in 1..Len(matrix.items) |->
                             "P" \o Spaces(8 - NumDigits(i - 1)) \o ToString(i - 1)],
                          "", 1)>>
      \o [i \in 1..Len(matrix.items) |->
            "P" \o ToString(i - 1) \o Spaces(4 - NumDigits(i - 1)) \o " "
              \o JoinWith([j \in 1..Len(matrix.items[i].items) |->
                             FixedRight(matrix.items[i].items[j].n, 8, 3)], "", 1)]

(* lines 198-204 *)
TxtPairs(pairs) ==
    <<"", "CALCULATION PAIRS:", "------------------------------">>
      \o [k \in 1..Len(pairs.items) |->
            "P" \o PyStr(Item(pairs.items[k], "point_indices").items[1])
              \o " <-> P" \o PyStr(Item(pairs.items[k], "point_indices").items[2])
              \o ": " \o Fixed(Item(pairs.items[k], "distance").n, 6)]

(* lines 207-212 *)
TxtMetadata(metadata) ==
    <<"", "METADATA:", "------------------------------">>
      \o [k \in 1..Len(metadata.keys) |->
            metadata.keys[k] \o ": " \o PyStr(metadata.items[k])]

(* lines 175-214: the lines that "\n".join puts together *)
_export_txt(results_data, now) ==
    IF SectionsRaise(results_data) THEN Raise("TypeError")
    ELSE IF HasKey(results_data, "metadata") /\ Item(results_data, "metadata").t # "dict"
    THEN Raise("AttributeError")
    ELSE Return(
           <<"DISTANCE ANALYSIS RESULTS",
             "==================================================",
             "Export Timestamp: " \o isoformat(now), "">>
             \o (IF HasKey(results_data, "distance_matrix")
                 THEN TxtMatrix(Item(results_data, "distance_matrix")) ELSE <<>>)
             \o (IF HasKey(results_data, "calculation_pairs")
                 THEN TxtPairs(Item(results_data, "calculation_pairs")) ELSE <<>>)
             \o (IF HasKey(results_data, "metadata")
                 THEN TxtMetadata(Item(results_data, "metadata")) ELSE <<>>))

(* lines 235-253 *)
HtmlMatrix(matrix) ==
    <<"<h2>Distance Matrix</h2>", "<table>",
      "<tr><th>Point</th>"
        \o JoinWith([i \in 1..Len(matrix.items) |-> "<th>P" \o ToString(i - 1) \o "</th>"],
                    "", 1)
        \o "</tr>">>
      \o [i \in 1..Len(matrix.items) |->
            "<tr><td><strong>P" \o ToString(i - 1) \o "</strong></td>"
              \o JoinWith([j \in 1..Len(matrix.items[i].items) |->
                             "<td>" \o Fixed(matrix.items[i].items[j].n, 6) \o "</td>"],
                          "", 1)
              \o "</tr>"]
      \o <<"</table>">>

(* lines 256-269 *)
HtmlPairs(pairs) ==
    <<"<h2>Calculation Pairs</h2>", "<table>",
      "<tr><th>Point A</th><th>Point B</th><th>Distance</th></tr>">>
      \o [k \in 1..Len(pairs.items) |->
            "<tr><td>P" \o PyStr(Item(pairs.items[k], "point_indices").items[1])
              \o "</td><td>P" \o PyStr(Item(pairs.items[k], "point_indices").items[2])
              \o "</td><td>" \o Fixed(Item(pairs.items[k], "distance").n, 6)
              \o "</td></tr>"]
      \o <<"</table>">>

(* lines 216-272: the parts of the page, one table row per entry here; the *)
(* style sheet of lines 222-228 is one entry                               *)
_export_html(results_data, now) ==
    IF SectionsRaise(results_data) THEN Raise("TypeError")
    ELSE Return(
           <<"<!DOCTYPE html>", "<html><head>",
             "<title>Distance Analysis Results</title>", "<style>..</style>",
             "</head><body>", "<h1>Distance Analysis Results</h1>",
             "<p><strong>Export Timestamp:</strong> " \o isoformat(now) \o "</p>">>
             \o (IF HasKey(results_data, "distance_matrix")
                 THEN HtmlMatrix(Item(results_data, "distance_matrix")) ELSE <<>>)
             \o (IF HasKey(results_data, "calculation_pairs")
                 THEN HtmlPairs(Item(results_data, "calculation_pairs")) ELSE <<>>)
             \o <<"</body></html>">>)

(* ---- export ------------------------------------------------------------- *)
(* mutant: any name is taken *)
IsSupportedFormat_any(export_format) == TRUE

(* line 34 *)
IsSupportedFormat(export_format) == InList(export_format, supported_formats)

(* lines 287-290: the parts of the name *)
_generate_filename(export_format, now) ==
    <<"distance_analysis_", strftime(now), ".", export_format>>

(* lines 38-49; a name that matches no branch leaves exported_data unbound *)
ExportHelper(results_data, export_format, now) ==
    CASE export_format = "json" -> Return(_export_json(results_data, now))
      [] export_format = "csv" -> _export_csv(results_data)
      [] export_format = "xml" -> _export_xml(results_data, now)
      [] export_format = "excel" -> _export_excel(results_data)
      [] export_format = "txt" -> _export_txt(results_data, now)
      [] export_format = "html" -> _export_html(results_data, now)
      [] OTHER -> Raise("UnboundLocalError")

(* lines 22-60; now is the clock's reading; the export id is left out and  *)
(* original_data_size is given as the text whose length it is              *)
export(results_data, export_format, now) ==
    IF ~IsSupportedFormat(export_format) THEN Raise("UnsupportedFormat")
    ELSE LET out == ExportHelper(results_data, export_format, now)
         IN IF ~out.ok THEN out
            ELSE Return([format |-> export_format,
                         data |-> out.value,
                         filename |-> _generate_filename(export_format, now),
                         original_data_size |-> PyStr(results_data)])

(* app.py lines 62-75 *)
ExportResponse(r) ==
    IF r.ok
    THEN [status |-> 200, error |-> "", engine_called |-> TRUE, result |-> r]
    ELSE [status |-> 500, error |-> GenericMessage("export_results", r.error),
          engine_called |-> TRUE, result |-> r]

(* app.py lines 66-70: data.get('format', 'json'), data.get('results', {}) *)
export_results(data, now) ==
    IF ~data.is_object THEN NoObjectResponse("export_results")
    ELSE ExportResponse(export(IF data.has_results THEN data.results ELSE PDict(<<>>, <<>>),
                               IF data.has_format THEN data.format ELSE "json",
                               now))

(* ---- the results handed to the exporter --------------------------------- *)
IntList(xs) == PList([k \in 1..Len(xs) |-> PInt(xs[k])])
IntTuple(xs) == PTuple([k \in 1..Len(xs) |-> PInt(xs[k])])

PairOf(indices, distance) ==
    PDict(<<"point_indices", "distance">>, <<indices, PInt(distance)>>)

(* the values met under 'distance_matrix': square, one row of two, rows    *)
(* that are tuples, no list at all                                         *)
MatrixValues ==
    {PList(<<IntList(<<0, 1>>), IntList(<<1, 0>>)>>),
     PList(<<IntList(<<0, 1>>)>>),
     PList(<<IntTuple(<<0, 1>>), IntTuple(<<1, 0>>)>>),
     PNone}

(* the values met under 'calculation_pairs'; the last pair has no indices *)
PairsValues ==
    {PList(<<PairOf(IntList(<<0, 1>>), 1)>>),
     PList(<<PairOf(IntTuple(<<0, 1>>), 1), PairOf(IntTuple(<<0, 2>>), 0)>>),
     PList(<<>>),
     PList(<<PDict(<<"distance">>, <<PInt(1)>>)>>)}

(* further entries: a text, a datetime, a tuple, a dict, a list, None *)
OtherEntries ==
    {<<"metric", PStr("euclidean")>>,
     <<"created", PObj("2026-01-01 00:00:00")>>,
     <<"shape", IntTuple(<<2, 2>>)>>,
     <<"metadata", PDict(<<"source", "count">>, <<PStr("test"), PInt(2)>>)>>,
     <<"total_points", PInt(3)>>,
     <<"tags", PList(<<PStr("a"), PNone>>)>>}

(* one optional entry of each sort, in either order of the first two *)
EntryLists ==
    LET ms == {<<>>} \cup {<<(<<"distance_matrix", m>>)>> : m \in MatrixValues}
        ps == {<<>>} \cup {<<(<<"calculation_pairs", q>>)>> : q \in PairsValues}
        os == {<<>>} \cup {<<e>> : e \in OtherEntries}
    IN {m \o q \o o : m \in ms, q \in ps, o \in os}
         \cup {q \o m \o o : m \in ms, q \in ps, o \in os}

DictOf(entries) ==
    PDict([k \in 1..Len(entries) |-> entries[k][1]],
          [k \in 1..Len(entries) |-> entries[k][2]])

(* the results: dicts, and a list where a dict is expected *)
ResultsData == {DictOf(es) : es \in EntryLists} \cup {IntList(<<0, 1>>)}

(* the six names and names the exporter does not know *)
FormatNames == {"json", "csv", "xml", "excel", "txt", "html", "pdf", "JSON", ""}

(* the bodies of POST /api/export: no object; no field at all; a matrix as *)
(* csv; an unknown format; a matrix that is None as csv and as json        *)
ExportBodies ==
    LET Body(hf, f, hr, r) ==
          [is_object |-> TRUE, has_format |-> hf, format |-> f,
           has_results |-> hr, results |-> r]
        matrix == DictOf(<<(<<"distance_matrix",
                              PList(<<IntList(<<0, 1>>), IntList(<<1, 0>>)>>)>>)>>)
        broken == DictOf(<<(<<"distance_matrix", PNone>>)>>)
    IN {[is_object |-> FALSE, has_format |-> FALSE, format |-> "",
         has_results |-> FALSE, results |-> PNone],
        Body(FALSE, "", FALSE, PNone),
        Body(TRUE, "csv", TRUE, matrix),
        Body(TRUE, "pdf", TRUE, matrix),
        Body(TRUE, "csv", TRUE, broken),
        Body(FALSE, "", TRUE, broken)}

(* --------------------------- actions ----------------------------------- *)
NoResponse ==
    [status |-> 0, error |-> "", engine_called |-> FALSE, result |-> Raise("none")]

(* a request thread between two requests *)
IdleThread ==
    [pc |-> "idle", kind |-> "none", req |-> [none |-> TRUE],
     config |-> [none |-> TRUE], resp |-> NoResponse]

Init ==
    /\ supported_types = <<"euclidean", "manhattan", "cosine", "hamming", "jaccard">>
    /\ op = "none"
    /\ args = [none |-> TRUE]
    /\ result = [ok |-> TRUE, value |-> [none |-> TRUE]]
    /\ supported_chart_types = <<"scatter", "heatmap", "network", "histogram", "line">>
    /\ supported_formats = <<"json", "csv", "xml", "excel", "txt", "html">>
    /\ rc_params = "default"
    /\ open_figures = 0
    /\ threads = [t \in Threads |-> IdleThread]

Idle == op = "none"

(* DistanceCalculator.calculate called with one pair of points *)
Calculate ==
    /\ Idle
    /\ \E a \in Vectors, b \in Vectors, t \in MetricNames :
        /\ op' = "calculate"
        /\ args' = [point_a |-> a, point_b |-> b, calculation_type |-> t]
        /\ result' = calculate(a, b, t)
    /\ UNCHANGED supported_types
    /\ UNCHANGED server_vars

(* DistanceCalculator.batch_calculate called with a list of points *)
BatchCalculate ==
    /\ Idle
    /\ \E ps \in PointLists, t \in MetricNames :
        /\ op' = "batch_calculate"
        /\ args' = [points |-> ps, calculation_type |-> t]
        /\ result' = batch_calculate(ps, t)
    /\ UNCHANGED supported_types
    /\ UNCHANGED server_vars

(* ResultsExporter.export called with results and a format name *)
Export ==
    /\ Idle
    /\ \E results_data \in ResultsData, export_format \in FormatNames, now \in Clock :
        /\ op' = "export"
        /\ args' = [results_data |-> results_data, export_format |-> export_format,
                    now |-> now]
        /\ result' = export(results_data, export_format, now)
    /\ UNCHANGED supported_types
    /\ UNCHANGED server_vars

(* one POST /api/calculate-distance request *)
CalculateDistanceRoute ==
    /\ Idle
    /\ \E data \in Bodies :
        /\ op' = "calculate_distance"
        /\ args' = data
        /\ result' = calculate_distance(data)
    /\ UNCHANGED supported_types
    /\ UNCHANGED server_vars

(* the call has returned or raised; its request-scoped data is dropped *)
Finish ==
    /\ ~Idle
    /\ op' = "none"
    /\ args' = [none |-> TRUE]
    /\ result' = [ok |-> TRUE, value |-> [none |-> TRUE]]
    /\ UNCHANGED supported_types
    /\ UNCHANGED server_vars

(* ------------------------ the request threads ------------------------- *)
service_vars == <<supported_types, supported_chart_types, supported_formats>>

(* The bodies the threads draw for POST /api/calculate-distance.           *)
ThreadPointFields ==
    {f \in PointFields : f.kind # "null" /\ \A k \in 1..Len(f.value) : f.value[k] = 1}
ThreadTypeFields ==
    {f \in TypeFields : f.kind = "missing" \/ f.value \in {"cosine", "chebyshev"}}
ThreadCalcBodies ==
    {b \in Bodies : \/ ~b.is_object
                    \/ /\ b.point_a \in ThreadPointFields
                       /\ b.point_b \in ThreadPointFields
                       /\ b.type \in ThreadTypeFields}

Done(t, kind, req, resp) ==
    threads' = [threads EXCEPT ![t] =
                  [pc |-> "done", kind |-> kind, req |-> req,
                   config |-> [none |-> TRUE], resp |-> resp]]

(* app.py lines 24-41: the route touches no shared state and is one step *)
HandleCalculateDistance(t) ==
    /\ threads[t].pc = "idle"
    /\ \E data \in ThreadCalcBodies :
         Done(t, "calculate_distance", data, calculate_distance(data))
    /\ UNCHANGED <<rc_params, open_figures>>
    /\ UNCHANGED <<service_vars, op, args, result>>

(* app.py lines 62-75: the exporter touches no shared state and the route  *)
(* is one step                                                             *)
HandleExport(t) ==
    /\ threads[t].pc = "idle"
    /\ \E data \in ExportBodies, now \in Clock :
         Done(t, "export_results", data, export_results(data, now))
    /\ UNCHANGED <<rc_params, open_figures>>
    /\ UNCHANGED <<service_vars, op, args, result>>

(* app.py lines 46-55 and generate lines 51-58: the body is read, the      *)
(* chart kind is checked and plt.style.use('default') resets the global    *)
(* rcParams                                                                *)
StartVisualization(t) ==
    /\ threads[t].pc = "idle"
    /\ open_figures < MaxOpenFigures
    /\ \E data \in VizBodies :
         IF ~data.is_object
         THEN /\ Done(t, "generate_visualization", data,
                      NoObjectResponse("generate_visualization"))
              /\ UNCHANGED rc_params
         ELSE LET config == VisualizationConfig(data)
              IN IF ~IsSupportedChart(ChartTypeOf(config).value)
                 THEN /\ Done(t, "generate_visualization", data,
                              VisualizationResponse(Raise("UnsupportedChartKind")))
                      /\ UNCHANGED rc_params
                 ELSE /\ threads' = [threads EXCEPT ![t] =
                                       [pc |-> "style", kind |-> "generate_visualization",
                                        req |-> data, config |-> config,
                                        resp |-> NoResponse]]
                      /\ rc_params' = "default"
    /\ UNCHANGED open_figures
    /\ UNCHANGED <<service_vars, op, args, result>>

(* generate lines 59-65: the palette is written into the global rcParams *)
SetPalette(t) ==
    /\ threads[t].pc = "style"
    /\ rc_params' = "palette"
    /\ threads' = [threads EXCEPT ![t].pc = "draw"]
    /\ UNCHANGED open_figures
    /\ UNCHANGED <<service_vars, op, args, result>>

(* generate lines 68-87 and app.py lines 56-60: the chart helper creates   *)
(* its figure under the rcParams in force, draws, encodes and closes it;   *)
(* a helper that raises after plt.subplots leaves the figure open          *)
Draw(t) ==
    /\ threads[t].pc = "draw"
    /\ LET config == threads[t].config
           out == ChartHelper(config, ChartTypeOf(config).value, rc_params)
           r == IF out.ok THEN Return(GenerateResult(config, out.image))
                ELSE Raise(out.error)
       IN /\ threads' = [threads EXCEPT ![t].pc = "done",
                                        ![t].resp = VisualizationResponse(r)]
          /\ open_figures' = IF out.created /\ ~out.closed
                             THEN open_figures + 1 ELSE open_figures
    /\ UNCHANGED rc_params
    /\ UNCHANGED <<service_vars, op, args, result>>

(* the response is sent and the thread takes the next request *)
Respond(t) ==
    /\ threads[t].pc = "done"
    /\ threads' = [threads EXCEPT ![t] = IdleThread]
    /\ UNCHANGED <<rc_params, open_figures>>
    /\ UNCHANGED <<service_vars, op, args, result>>

ServerNext ==
    \/ \E t \in Threads : HandleCalculateDistance(t)
    \/ \E t \in Threads : HandleExport(t)
    \/ \E t \in Threads : StartVisualization(t)
    \/ \E t \in Threads : SetPalette(t)
    \/ \E t \in Threads : Draw(t)
    \/ \E t \in Threads : Respond(t)

ServerSpec == Init /\ [][ServerNext]_vars

Next ==
    \/ Calculate
    \/ BatchCalculate
    \/ CalculateDistanceRoute
    \/ Export
    \/ Finish

Spec == Init /\ [][Next]_vars

(* ============================ properties =============================== *)
IsBatch == op = "batch_calculate"
IsCalc == op = "calculate"
IsRoute == op = "calculate_distance"

NPoints == Len(args.points)
EqualLengths == \A i, j \in 1..NPoints : Len(args.points[i]) = Len(args.points[j])
Matrix == result.value.distance_matrix
Pairs == result.value.calculation_pairs

(* C1: for N >= 2 points of equal length and a supported metric,            *)
(* batch_calculate returns an N x N matrix with a zero diagonal that is     *)
(* symmetric: matrix[i][j] = matrix[j][i].                                  *)
C1_Pre ==
    /\ IsBatch
    /\ NPoints >= 2
    /\ EqualLengths
    /\ args.calculation_type \in Metrics

C1_SymmetricZeroDiagonal ==
    C1_Pre =>
      /\ result.ok
      /\ Len(Matrix) = NPoints
      /\ \A i \in 1..NPoints :
            /\ Len(Matrix[i]) = NPoints
            /\ Matrix[i][i] = Zero
      /\ \A i, j \in 1..NPoints : Matrix[i][j] = Matrix[j][i]

C1_Witness ==
    /\ C1_Pre
    /\ NPoints >= 3
    /\ result.ok
    /\ \E i, j \in 1..NPoints : Matrix[i][j] # Zero /\ Matrix[i][j] # One
    /\ \E i \in 1..NPoints : \A k \in 1..Len(args.points[i]) : args.points[i][k] = 0

(* C2: calculate with a supported metric and two vectors of different      *)
(* lengths fails with DimensionMismatch and returns no result.              *)
C2_Pre ==
    /\ IsCalc
    /\ args.calculation_type \in Metrics
    /\ Len(args.point_a) # Len(args.point_b)

C2_DimensionMismatch ==
    C2_Pre => (~result.ok /\ result.error = "DimensionMismatch")

C2_Witness ==
    /\ C2_Pre
    /\ Len(args.point_a) = 1
    /\ Len(args.point_b) = 2
    /\ ~result.ok

(* C3: calculate fails with InvalidMetric for every metric name outside the *)
(* five, whatever the vectors (different lengths included), and never       *)
(* returns a result, nor leaves the dispatch without a distance.            *)
C3_Pre ==
    /\ IsCalc
    /\ args.calculation_type \notin Metrics

C3_InvalidMetric ==
    C3_Pre => (~result.ok /\ result.error = "InvalidMetric")

C3_Witness ==
    /\ C3_Pre
    /\ Len(args.point_a) = Len(args.point_b)
    /\ Len(args.point_a) > 0
    /\ ~result.ok

(* C4: batch_calculate fails with InsufficientPoints for fewer than 2       *)
(* points and fails for N >= 2 whenever two points differ in length; it     *)
(* returns a result (a matrix) only when N >= 2 and all lengths agree.      *)
C4_BatchFailures ==
    IsBatch =>
      /\ NPoints < 2 => (~result.ok /\ result.error = "InsufficientPoints")
      /\ (NPoints >= 2 /\ ~EqualLengths) => ~result.ok
      /\ result.ok => (NPoints >= 2 /\ EqualLengths)

C4_Witness ==
    /\ IsBatch
    /\ NPoints = 3
    /\ Len(args.points[1]) = Len(args.points[2])
    /\ Len(args.points[1]) # Len(args.points[3])
    /\ args.calculation_type \in Metrics
    /\ ~result.ok
    /\ result.error = "DimensionMismatch"

(* C5: on success calculation_pairs holds exactly one entry [i, j] for each *)
(* i < j (N*(N-1)/2 entries, none with i >= j, none repeated), and the      *)
(* entry's distance is distance_matrix[i][j].                               *)
C5_Pairs ==
    (IsBatch /\ result.ok) =>
      /\ 2 * Len(Pairs) = NPoints * (NPoints - 1)
      /\ \A k \in 1..Len(Pairs) :
            LET i == Pairs[k].point_indices[1]
                j == Pairs[k].point_indices[2]
            IN /\ Len(Pairs[k].point_indices) = 2
               /\ 0 <= i /\ i < j /\ j < NPoints
               /\ Pairs[k].distance = Matrix[i + 1][j + 1]
      /\ \A k, l \in 1..Len(Pairs) :
            k # l => Pairs[k].point_indices # Pairs[l].point_indices
      /\ \A i, j \in 0..(NPoints - 1) :
            i < j => \E k \in 1..Len(Pairs) : Pairs[k].point_indices = <<i, j>>

C5_Witness ==
    /\ IsBatch
    /\ result.ok
    /\ NPoints = 3
    /\ Len(Pairs) = 3
    /\ \E k \in 1..Len(Pairs) : Pairs[k].distance # Zero

Distance == result.value.distance
AllNonNegative(v) == \A k \in 1..Len(v) : v[k] >= 0
AllZero(v) == \A k \in 1..Len(v) : v[k] = 0
CalcOk == IsCalc /\ result.ok

(* C6 as stated: for equal-length vectors and every metric other than       *)
(* cosine the distance returned by calculate is non-negative.               *)
C6_Original ==
    (CalcOk /\ args.calculation_type \in {"euclidean", "manhattan", "hamming", "jaccard"})
      => RNonNeg(Distance)

(* C6 amended: the euclidean, manhattan and hamming distances are           *)
(* non-negative for all equal-length vectors; the jaccard distance is       *)
(* non-negative when no component of either vector is negative.             *)
C6_NonNegative ==
    CalcOk =>
      /\ args.calculation_type \in {"euclidean", "manhattan", "hamming"}
            => RNonNeg(Distance)
      /\ (/\ args.calculation_type = "jaccard"
          /\ AllNonNegative(args.point_a)
          /\ AllNonNegative(args.point_b)) => RNonNeg(Distance)

C6_Witness ==
    /\ CalcOk
    /\ args.calculation_type = "manhattan"
    /\ Len(args.point_a) = 2
    /\ args.point_a[1] < args.point_b[1]
    /\ args.point_a[2] < 0
    /\ Distance # Zero

SumMax(a, b) == Sum([k \in 1..Len(a) |-> IF a[k] > b[k] THEN a[k] ELSE b[k]])

(* C7 as stated: the jaccard distance is 0.0 exactly when the sum of the    *)
(* element-wise maximum of a and b is 0.                                    *)
C7_Original ==
    (CalcOk /\ args.calculation_type = "jaccard")
      => (Distance = Zero <=> SumMax(args.point_a, args.point_b) = 0)

(* C7 amended: the jaccard distance is 0.0 if the sum of the element-wise   *)
(* maximum is 0; when that sum is not 0 it is 0.0 exactly when a and b are  *)
(* equal element by element.                                                *)
C7_JaccardZero ==
    (CalcOk /\ args.calculation_type = "jaccard")
      => (Distance = Zero <=>
            (SumMax(args.point_a, args.point_b) = 0 \/ args.point_a = args.point_b))

C7_Witness ==
    /\ CalcOk
    /\ args.calculation_type = "jaccard"
    /\ Len(args.point_a) = 2
    /\ SumMax(args.point_a, args.point_b) = 0
    /\ args.point_a # args.point_b
    /\ Distance = Zero

(* C8: the hamming distance is the number of positions k with a[k] # b[k],  *)
(* not divided by the length; 0 for identical vectors, at most the length.  *)
C8_Hamming ==
    (CalcOk /\ args.calculation_type = "hamming") =>
      LET differing == {k \in 1..Len(args.point_a) : args.point_a[k] # args.point_b[k]}
      IN /\ Distance = [num |-> Cardinality(differing), irr |-> 0, rad |-> 1, den |-> 1]
         /\ args.point_a = args.point_b => Distance = Zero
         /\ Distance.num <= Len(args.point_a)

C8_Witness ==
    /\ CalcOk
    /\ args.calculation_type = "hamming"
    /\ Len(args.point_a) = 2
    /\ args.point_a[1] # args.point_b[1]
    /\ args.point_a[2] # args.point_b[2]
    /\ Distance.num = 2

(* C9: for cosine, calculate returns exactly 1.0 whenever one of the two    *)
(* equal-length vectors is all zero, whatever the other is, and never       *)
(* divides by zero.                                                         *)
C9_Pre ==
    /\ IsCalc
    /\ args.calculation_type = "cosine"
    /\ Len(args.point_a) = Len(args.point_b)
    /\ (AllZero(args.point_a) \/ AllZero(args.point_b))

C9_CosineZeroVector ==
    /\ C9_Pre => (result.ok /\ Distance = One)
    /\ (CalcOk /\ args.calculation_type = "cosine") => ~IsNaN(Distance)

C9_Witness ==
    /\ C9_Pre
    /\ Len(args.point_a) = 2
    /\ ~AllZero(args.point_a)
    /\ AllZero(args.point_b)
    /\ result.ok

PointMissing(data) ==
    data.is_object /\ (data.point_a.kind = "missing" \/ data.point_b.kind = "missing")
Absent(field) == field.kind \in {"missing", "null"} \/ field.value = <<>>
PointAbsent(data) == data.is_object /\ (Absent(data.point_a) \/ Absent(data.point_b))
EngineFailed == result.engine_called /\ ~result.result.ok

(* C10 as stated: the route answers 400 without invoking the engine         *)
(* whenever point_a or point_b is missing from the body, answers 400 only   *)
(* then, and answers every engine failure with 500.                         *)
C10_Original ==
    IsRoute =>
      /\ PointMissing(args) => (result.status = 400 /\ ~result.engine_called)
      /\ result.status = 400 => PointMissing(args)
      /\ EngineFailed => result.status = 500

(* C10 amended: for a JSON object body the route answers 400 with an error  *)
(* body, without invoking the engine, exactly when point_a or point_b is    *)
(* missing, null or an empty list; every failure of the engine (unknown     *)
(* metric, dimension mismatch) is answered with 500.                        *)
C10_Route ==
    IsRoute =>
      /\ PointAbsent(args) =>
            /\ result.status = 400
            /\ result.error = "Both points are required"
            /\ ~result.engine_called
      /\ result.status = 400 => PointAbsent(args)
      /\ EngineFailed => (result.status = 500 /\ result.error = "Calculation failed")
      /\ (args.is_object /\ ~PointAbsent(args)) => result.engine_called

C10_Witness ==
    /\ IsRoute
    /\ args.point_a.kind = "value"
    /\ args.point_a.value = <<>>
    /\ args.point_b.kind = "value"
    /\ Len(args.point_b.value) = 2
    /\ args.type.kind = "value"
    /\ args.type.value = "chebyshev"
    /\ result.status = 400


(* ---- the request threads ---- *)
IsDone(t) == threads[t].pc = "done"
KindOf(t) == threads[t].kind

(* the engine or an adapter raised while thread t handled its request *)
Raised(t) == ~threads[t].resp.result.ok /\ threads[t].resp.result.error # "none"

(* the messages of app.py lines 34, 41, 60, 75 *)
FixedMessages ==
    {"Both points are required", "Calculation failed",
     "Visualization generation failed", "Export failed"}

(* C11: on each of the three POST routes every error raised by the engine  *)
(* or an adapter is caught: the request is answered with status 400 or     *)
(* 500 and an error text that is the fixed message of the route, never the *)
(* text of the exception; an answer without error has status 200.          *)
C11_ErrorsCaught ==
    \A t \in Threads :
      IsDone(t) =>
        LET r == threads[t].resp
        IN /\ r.status \in {200, 400, 500}
           /\ (r.status = 200) <=> r.result.ok
           /\ Raised(t) =>
                /\ r.status = 500
                /\ r.error = GenericMessage(KindOf(t), "")
                /\ r.error # r.result.error
           /\ r.status # 200 => r.error \in FixedMessages

(* every route has answered a raised error, at the same time on two of them *)
C11_Witness ==
    /\ IsDone("w1") /\ KindOf("w1") = "export_results" /\ Raised("w1")
    /\ threads["w1"].resp.result.error = "UnsupportedFormat"
    /\ IsDone("w2") /\ KindOf("w2") = "generate_visualization" /\ Raised("w2")
    /\ threads["w2"].resp.result.error = "MissingData"


(* C12: every figure a generate call creates is released by the time the   *)
(* call returns or raises, so no figure is open once the drawing step of   *)
(* a request is over.  (Draw runs a helper from plt.subplots to its end in *)
(* one step, so open_figures counts only figures no step will close.)      *)
C12_FiguresReleased == open_figures = 0


IsViz(t) == KindOf(t) = "generate_visualization" /\ threads[t].req.is_object

(* the chart kind a body asks for; 'scatter' when it names none *)
RequestedChart(req) ==
    IF req.chart_type.kind = "missing" THEN "scatter" ELSE req.chart_type.value

(* the input the chart kind requires is in the body and is not empty: the  *)
(* points, or the matrix or the array carried by `distances`               *)
RequiredInputPresent(req) ==
    CASE RequestedChart(req) \in {"scatter", "network"} ->
           req.points.kind = "value" /\ Len(req.points.value) > 0
      [] RequestedChart(req) = "heatmap" ->
           /\ req.distances.kind = "value"
           /\ req.distances.value.shape = "matrix"
           /\ Len(req.distances.value.rows) > 0
      [] RequestedChart(req) \in {"histogram", "line"} ->
           req.distances.kind = "value" /\ DLen(req.distances.value) > 0

(* C13: a request of POST /api/generate-visualization fails with           *)
(* MissingData exactly when the input its chart kind requires is absent or *)
(* empty, and a chart kind outside the five fails with                     *)
(* UnsupportedChartKind whatever data it carries.                          *)
C13_MissingData ==
    \A t \in Threads :
      IsDone(t) /\ IsViz(t) =>
        IF RequestedChart(threads[t].req) \notin ChartKinds
        THEN threads[t].resp.result = Raise("UnsupportedChartKind")
        ELSE (threads[t].resp.result = Raise("MissingData"))
               <=> ~RequiredInputPresent(threads[t].req)


(* the answers a server that has handled nothing else gives to a request;  *)
(* they differ in the reading of the clock only                            *)
FreshResponses(kind, req) ==
    CASE kind = "calculate_distance" -> {calculate_distance(req)}
      [] kind = "generate_visualization" -> {generate_visualization(req)}
      [] kind = "export_results" -> {export_results(req, now) : now \in Clock}

(* C14: no request changes state another request reads: in any             *)
(* interleaving of the three routes every answer is, apart from its        *)
(* timestamp, the answer a fresh server gives to the same request, and the *)
(* supported-option lists of the services stay as constructed.             *)
C14_NoSharedState ==
    /\ supported_types = <<"euclidean", "manhattan", "cosine", "hamming", "jaccard">>
    /\ supported_chart_types = <<"scatter", "heatmap", "network", "histogram", "line">>
    /\ supported_formats = <<"json", "csv", "xml", "excel", "txt", "html">>
    /\ \A t \in Threads :
         IsDone(t) => threads[t].resp \in FreshResponses(KindOf(t), threads[t].req)


(* ---- the exporter ---- *)
IsExport(format) == op = "export" /\ args.export_format = format

(* a matrix given as a list of lists, as JSON delivers it *)
IsListMatrix(results_data) ==
    /\ HasKey(results_data, "distance_matrix")
    /\ Item(results_data, "distance_matrix").t = "list"
    /\ \A i \in 1..Len(Item(results_data, "distance_matrix").items) :
         Item(results_data, "distance_matrix").items[i].t = "list"

(* pairs given as a list of well-formed pairs *)
IsPairList(results_data) ==
    /\ HasKey(results_data, "calculation_pairs")
    /\ Item(results_data, "calculation_pairs").t = "list"
    /\ \A k \in 1..Len(Item(results_data, "calculation_pairs").items) :
         IsPair(Item(results_data, "calculation_pairs").items[k])

(* the results reduced to their distance matrix *)
MatrixOnly(results_data) ==
    PDict(<<"distance_matrix">>, <<Item(results_data, "distance_matrix")>>)

(* C15: csv export chooses its layout by strict priority.  With a distance *)
(* matrix the text is the header of point labels and one row per matrix    *)
(* row, whatever else the results hold ([[0,1],[1,0]] gives Point,P0,P1 /  *)
(* P0,0,1 / P1,1,0); the pair rows appear only without a matrix and with   *)
(* calculation pairs; the Key,Value rows, one per top-level key, only when *)
(* neither is there.                                                       *)
C15_CsvPriority ==
    IsExport("csv") =>
      LET rd == args.results_data
      IN /\ IsListMatrix(rd) =>
              /\ result.ok
              /\ Len(result.value.data) = 1 + Len(Item(rd, "distance_matrix").items)
              /\ result.value.data = _export_csv(MatrixOnly(rd)).value
              /\ Item(rd, "distance_matrix") = PList(<<IntList(<<0, 1>>), IntList(<<1, 0>>)>>)
                   => result.value.data = <<"Point,P0,P1", "P0,0,1", "P1,1,0">>
         /\ ~HasKey(rd, "distance_matrix") /\ IsPairList(rd) =>
              /\ result.ok
              /\ Len(result.value.data) = 1 + Len(Item(rd, "calculation_pairs").items)
              /\ result.value.data[1] = "Point_A_Index,Point_B_Index,Distance"
              /\ Item(rd, "calculation_pairs") = PList(<<PairOf(IntList(<<0, 1>>), 1)>>)
                   => result.value.data[2] = "0,1,1"
         /\ (rd.t = "dict" /\ ~HasKey(rd, "distance_matrix")
               /\ ~HasKey(rd, "calculation_pairs")) =>
              /\ result.ok
              /\ Len(result.value.data) = 1 + Len(rd.keys)
              /\ result.value.data[1] = "Key,Value"
         /\ result.ok /\ result.value.data[1] = "Point_A_Index,Point_B_Index,Distance" =>
              ~HasKey(rd, "distance_matrix") /\ HasKey(rd, "calculation_pairs")
         /\ result.ok /\ result.value.data[1] = "Key,Value" =>
              ~HasKey(rd, "distance_matrix") /\ ~HasKey(rd, "calculation_pairs")

(* results with pairs listed before the matrix are exported as a matrix *)
C15_Witness ==
    /\ IsExport("csv")
    /\ args.results_data.t = "dict" /\ Len(args.results_data.keys) = 3
    /\ args.results_data.keys[1] = "calculation_pairs"
    /\ args.results_data.keys[2] = "distance_matrix"
    /\ IsPairList(args.results_data)
    /\ result.ok
    /\ result.value.data = <<"Point,P0,P1", "P0,0,1", "P1,1,0">>


RECURSIVE IsJsonValue(_)
(* a value made of what JSON can hold: dicts with text keys, lists, texts, *)
(* numbers and None                                                        *)
IsJsonValue(v) ==
    /\ v.t \in {"dict", "list", "str", "int", "none"}
    /\ \A k \in 1..Len(v.items) : IsJsonValue(v.items[k])

RECURSIVE AsJson(_)
(* the value with every tuple turned into a list and every value of no     *)
(* JSON type into its str() text                                           *)
AsJson(v) ==
    CASE v.t = "obj" -> PStr(v.s)
      [] v.t = "tuple" -> PList([k \in 1..Len(v.items) |-> AsJson(v.items[k])])
      [] v.t = "list" -> PList([k \in 1..Len(v.items) |-> AsJson(v.items[k])])
      [] v.t = "dict" -> PDict(v.keys, [k \in 1..Len(v.items) |-> AsJson(v.items[k])])
      [] OTHER -> v

(* the `results` member of the parsed text of a json export *)
ParsedResults == Item(Loads(result.value.data), "results")

(* C16 as stated: for every results structure, parsing the text of a json  *)
(* export gives back an envelope whose `results` member equals the         *)
(* original results.                                                       *)
C16_Original == IsExport("json") => result.ok /\ ParsedResults = args.results_data

(* C16: parsing the text of a json export gives an envelope with the       *)
(* members export_info (format, timestamp, version) and results; results   *)
(* is the original with tuples as lists and values of no JSON type as      *)
(* their str() text, and so equals the original when that is made of JSON  *)
(* values only.                                                            *)
C16_JsonRoundTrip ==
    IsExport("json") =>
      /\ result.ok
      /\ Loads(result.value.data).t = "dict"
      /\ Loads(result.value.data).keys = <<"export_info", "results">>
      /\ Item(Loads(result.value.data), "export_info")
           = PDict(<<"format", "timestamp", "version">>,
                   <<PStr("json"), PStr(isoformat(args.now)), PStr("1.0")>>)
      /\ ParsedResults = AsJson(args.results_data)
      /\ IsJsonValue(args.results_data) => ParsedResults = args.results_data

(* a matrix, pairs and a nested dict, all of JSON values, came back equal *)
C16_Witness ==
    /\ IsExport("json")
    /\ IsListMatrix(args.results_data)
    /\ IsPairList(args.results_data)
    /\ HasKey(args.results_data, "metadata")
    /\ IsJsonValue(args.results_data)
    /\ result.ok
    /\ ParsedResults = args.results_data


(* the six format names of the exporter *)
SixFormats == {"json", "csv", "xml", "excel", "txt", "html"}

(* C17: export fails with UnsupportedFormat for every format name outside  *)
(* the six, whatever the results are (also results no serializer accepts); *)
(* for each of the six a returned result has the requested name as its     *)
(* format and a filename that ends with "." and that name, a failure is    *)
(* never UnsupportedFormat, and json and xml return for all results.       *)
C17_UnsupportedFormat ==
    op = "export" =>
      /\ args.export_format \notin SixFormats => result = Raise("UnsupportedFormat")
      /\ args.export_format \in SixFormats =>
           /\ ~result.ok => result.error # "UnsupportedFormat"
           /\ args.export_format \in {"json", "xml"} => result.ok
           /\ result.ok =>
                /\ result.value.format = args.export_format
                /\ Len(result.value.filename) >= 2
                /\ result.value.filename[Len(result.value.filename) - 1] = "."
                /\ result.value.filename[Len(result.value.filename)] = args.export_format

(* results that are no dict, which no tabular serializer accepts, were     *)
(* refused for the name of the format alone                                *)
C17_Witness ==
    /\ op = "export"
    /\ args.export_format = "pdf"
    /\ args.results_data.t = "list"
    /\ result = Raise("UnsupportedFormat")

====
